---- MODULE Spec2Model ----
(***************************************************************************)
(* Model of the browser front end of the TRIZ-AI patent assistant (the     *)
(* page script): the language switch handler and the three async click     *)
(* handlers generate, analyze and enhance, each suspended at               *)
(* `await fetch(...)` and at `await resp.json()`.                           *)
(*                                                                         *)
(* A text is a sequence of one-character strings; a string literal of the  *)
(* source is a one-token text, so that concatenation, trimming and joining *)
(* are computed on sequences.  Cyrillic literals are transliterated.       *)
(***************************************************************************)
EXTENDS Integers, Sequences, FiniteSets, TLC

VARIABLES
    language,        \* value of the <select id="language">
    ui,              \* label, button, heading and placeholder texts of the page
    result,          \* #result section: hidden flag, #f_title, #formula
    analyze_result,  \* #analyze_result section: hidden flag, lists, #contradictions
    enhance_result,  \* #enhance_result section: hidden flag and its three fields
    tasks,           \* the invocations of generate/analyze/enhance, in trigger order
    rendered         \* per handler, what its last rendering run was given

vars == <<language, ui, result, analyze_result, enhance_result, tasks, rendered>>

----------------------------------------------------------------------------
(* Bounds of the model *)

MaxActions == 2

MaxItems == 2

(* invocations in a run that keeps the request bodies *)
MaxPosts == 1

----------------------------------------------------------------------------
(* Endpoints *)

API_BASE == "https://voroninsergei-triz-ai-patent-assistant-api.hf.space"

API_FORMULA == <<API_BASE, "/formula">>

API_ANALYZE == <<API_BASE, "/analyze">>

API_ENHANCE == <<API_BASE, "/enhance">>

----------------------------------------------------------------------------
(* Translation table *)

translations ==
    [ru |->
       [h1 |-> <<"TRIZ-AI Patent Assistant">>,
        label_title |-> <<"Nazvanie (ob'ekt + funktsiya)">>,
        label_known |-> <<"Izvestnye priznaki">>,
        label_distinct |-> <<"Otlichitel'nye priznaki">>,
        label_effect |-> <<"Effekt (tekhnicheskiy rezul'tat)">>,
        label_language |-> <<"Yazyk formuly">>,
        label_style |-> <<"Stil' formuly">>,
        label_variants |-> <<"Kolichestvo variantov (ostav'te pustym dlya odnogo varianta)">>,
        btn_generate |-> <<"Sgenerirovat' formulu">>,
        header_analyze |-> <<"Analiz izobreteniya">>,
        label_analyze_text |-> <<"Tekst opisaniya izobreteniya">>,
        label_max_keywords |-> <<"Maks. kolichestvo klyuchevykh slov">>,
        btn_analyze |-> <<"Analizirovat'">>,
        header_enhance |-> <<"Uluchshenie formuly">>,
        label_enhance_formula |-> <<"Formula dlya uluchsheniya">>,
        label_api_key |-> <<"API-klyuch (optsional'no, dlya ispol'zovaniya LLM)">>,
        label_provider |-> <<"Provayder">>,
        btn_enhance |-> <<"Uluchshit' formulu">>,
        no_contradictions |-> <<"Protivorechiya ne obnaruzheny">>,
        field_title |-> <<"Nazvanie">>,
        field_formula |-> <<"Formula">>,
        field_keywords |-> <<"Klyuchevye slova">>,
        field_ipc |-> <<"IPC-kody">>,
        field_triz |-> <<"TRIZ-funktsii">>,
        field_contradictions |-> <<"Protivorechiya">>,
        field_proposed_title |-> <<"Predlagaemoe nazvanie">>,
        field_non_obvious |-> <<"Neochevidnye priznaki">>,
        field_justification |-> <<"Obosnovanie patentosposobnosti">>,
        error_fill_required |-> <<"Zapolnite kak minimum <<Nazvanie>> i <<Effekt>>">>,
        error_enter_description |-> <<"Vvedite opisanie izobreteniya dlya analiza">>,
        error_enter_formula |-> <<"Vvedite formulu dlya uluchsheniya">>],
     en |->
       [h1 |-> <<"TRIZ-AI Patent Assistant">>,
        label_title |-> <<"Name (object + function)">>,
        label_known |-> <<"Known features">>,
        label_distinct |-> <<"Distinctive features">>,
        label_effect |-> <<"Effect (technical result)">>,
        label_language |-> <<"Formula language">>,
        label_style |-> <<"Formula style">>,
        label_variants |-> <<"Number of variants (leave blank for one variant)">>,
        btn_generate |-> <<"Generate formula">>,
        header_analyze |-> <<"Invention analysis">>,
        label_analyze_text |-> <<"Description text for analysis">>,
        label_max_keywords |-> <<"Max. number of keywords">>,
        btn_analyze |-> <<"Analyze">>,
        header_enhance |-> <<"Enhance formula">>,
        label_enhance_formula |-> <<"Formula for enhancement">>,
        label_api_key |-> <<"API key (optional, for using LLM)">>,
        label_provider |-> <<"Provider">>,
        btn_enhance |-> <<"Enhance formula">>,
        no_contradictions |-> <<"No contradictions found">>,
        field_title |-> <<"Name">>,
        field_formula |-> <<"Formula">>,
        field_keywords |-> <<"Keywords">>,
        field_ipc |-> <<"IPC codes">>,
        field_triz |-> <<"TRIZ functions">>,
        field_contradictions |-> <<"Contradictions">>,
        field_proposed_title |-> <<"Proposed title">>,
        field_non_obvious |-> <<"Non-obvious features">>,
        field_justification |-> <<"Patentability justification">>,
        error_fill_required |-> <<"Please fill in at least the 'Name' and 'Effect' fields">>,
        error_enter_description |-> <<"Enter the invention description for analysis">>,
        error_enter_formula |-> <<"Enter a formula for enhancement">>]]

(* the lookup falling back to the en bundle *)
BundleFallbackEn(lang) ==
    IF lang \in DOMAIN translations THEN translations[lang] ELSE translations.en

(* translations[lang] || translations.ru *)
Bundle(lang) ==
    IF lang \in DOMAIN translations THEN translations[lang] ELSE translations.ru

(* Values the language selector can hold; "de" is no key of the table. *)
Languages == {"ru", "en", "de"}

----------------------------------------------------------------------------
(* Strings *)

Whitespace == {" ", "\t", "\n"}

(* String.prototype.trim: drops leading and trailing whitespace *)
RECURSIVE trimStart(_)
trimStart(s) ==
    IF s # <<>> /\ Head(s) \in Whitespace THEN trimStart(Tail(s)) ELSE s

RECURSIVE trimEnd(_)
trimEnd(s) ==
    IF s # <<>> /\ s[Len(s)] \in Whitespace
    THEN trimEnd(SubSeq(s, 1, Len(s) - 1))
    ELSE s

trim(s) == trimEnd(trimStart(s))

(* Array.prototype.join(sep) on an array of strings *)
RECURSIVE join(_, _)
join(arr, sep) ==
    IF arr = <<>> THEN <<>>
    ELSE IF Len(arr) = 1 THEN arr[1]
    ELSE arr[1] \o sep \o join(Tail(arr), sep)

(* ok taking every status below 500 for a success *)
okBelow500(status) == status >= 200 /\ status < 500

(* Response.ok: the status is in the range 200-299 *)
ok(status) == status >= 200 /\ status <= 299

----------------------------------------------------------------------------
(* JSON values of the responses.  A field that is absent reads as undefined. *)

undefined == [kind |-> "undefined"]

Str(s) == [kind |-> "string", value |-> s]

Arr(a) == [kind |-> "array", value |-> a]

(* an object of the contradictions array: {description: d} or {} *)
Obj(d) == [kind |-> "object", description |-> d]

(* truthiness that takes the empty string for a value *)
truthyEmptyString(v) == v.kind # "undefined"

(* JavaScript truthiness of a JSON value: undefined, "" are falsy; arrays and
   objects are truthy *)
truthy(v) ==
    CASE v.kind = "undefined" -> FALSE
      [] v.kind = "string" -> v.value # <<>>
      [] OTHER -> TRUE

(* a || b *)
Or(a, b) == IF truthy(a) THEN a ELSE b

(* value assigned to textContent: the string itself, String(object) for an
   object, the empty string for undefined/null *)
textContent(v) ==
    CASE v.kind = "string" -> v.value
      [] v.kind = "object" -> <<"[object Object]">>
      [] OTHER -> <<>>

(* c.description of an element of the contradictions array *)
description(c) == IF c.kind = "object" THEN c.description ELSE undefined

----------------------------------------------------------------------------
(* The page *)

(* Number of <strong> headings inside each result section of index.html *)
ResultStrong == 2

AnalyzeStrong == 4

EnhanceStrong == 3

(* The static markup before the script runs: every text that the script
   overwrites is still the markup's own *)
Html ==
    [h1 |-> <<"html">>, label_title |-> <<"html">>, label_known |-> <<"html">>,
     label_distinct |-> <<"html">>, label_effect |-> <<"html">>,
     label_language |-> <<"html">>, label_style |-> <<"html">>,
     label_variants |-> <<"html">>, btn |-> <<"html">>,
     h2_1 |-> <<"html">>, label_analyze_text |-> <<"html">>,
     label_max_keywords |-> <<"html">>, analyze_btn |-> <<"html">>,
     h2_2 |-> <<"html">>, label_enhance_formula |-> <<"html">>,
     label_api_key |-> <<"html">>, label_provider |-> <<"html">>,
     enhance_btn |-> <<"html">>,
     ph_title |-> <<"html">>, ph_known |-> <<"html">>, ph_distinct |-> <<"html">>,
     ph_effect |-> <<"html">>, ph_analyze_text |-> <<"html">>,
     ph_enhance_formula |-> <<"html">>, ph_openai_api_key |-> <<"html">>,
     result_strong |-> [i \in 1..ResultStrong |-> <<"html">>],
     analyze_strong |-> [i \in 1..AnalyzeStrong |-> <<"html">>],
     enhance_strong |-> [i \in 1..EnhanceStrong |-> <<"html">>]]

(* resultHeadings with the length test off by one *)
resultHeadingsOffByOne(t, old) ==
    IF Len(old) > 2
    THEN [old EXCEPT ![1] = t.field_title \o <<":">>,
                     ![2] = t.field_formula \o <<":">>]
    ELSE old

(* Lines 108-116: the two headings of #result, when it has at least two *)
resultHeadings(t, old) ==
    IF Len(old) >= 2
    THEN [old EXCEPT ![1] = t.field_title \o <<":">>,
                     ![2] = t.field_formula \o <<":">>]
    ELSE old

(* Lines 117-127 *)
analyzeHeadings(t, old) ==
    IF Len(old) >= 4
    THEN [old EXCEPT ![1] = t.field_keywords \o <<":">>,
                     ![2] = t.field_ipc \o <<":">>,
                     ![3] = t.field_triz \o <<":">>,
                     ![4] = t.field_contradictions \o <<":">>]
    ELSE old

(* Lines 128-137 *)
enhanceHeadings(t, old) ==
    IF Len(old) >= 3
    THEN [old EXCEPT ![1] = t.field_proposed_title \o <<":">>,
                     ![2] = t.field_non_obvious \o <<":">>,
                     ![3] = t.field_justification \o <<":">>]
    ELSE old

(* lang === "en" ? a : b *)
placeholder(lang, en, ru) == IF lang = "en" THEN en ELSE ru

(* updateLanguageUI: the texts of the page after the call, from the selector
   value lang and the texts before it *)
updateLanguageUI(lang, old) ==
    LET t == Bundle(lang) IN
    [h1 |-> t.h1,
     label_title |-> t.label_title \o <<"\n">>,
     label_known |-> t.label_known \o <<"\n">>,
     label_distinct |-> t.label_distinct \o <<"\n">>,
     label_effect |-> t.label_effect \o <<"\n">>,
     label_language |-> t.label_language \o <<"\n">>,
     label_style |-> t.label_style \o <<"\n">>,
     label_variants |-> t.label_variants \o <<"\n">>,
     btn |-> t.btn_generate,
     h2_1 |-> t.header_analyze,
     label_analyze_text |-> t.label_analyze_text \o <<"\n">>,
     label_max_keywords |-> t.label_max_keywords \o <<"\n">>,
     analyze_btn |-> t.btn_analyze,
     h2_2 |-> t.header_enhance,
     label_enhance_formula |-> t.label_enhance_formula \o <<"\n">>,
     label_api_key |-> t.label_api_key \o <<"\n">>,
     label_provider |-> t.label_provider \o <<"\n">>,
     enhance_btn |-> t.btn_enhance,
     ph_title |-> placeholder(lang, <<"Cooling system for an electric car battery">>,
                                    <<"Sistema okhlazhdeniya akkumulyatora...">>),
     ph_known |-> placeholder(lang, <<"radiator, electric fan">>,
                                    <<"radiator, elektricheskiy ventilyator">>),
     ph_distinct |-> placeholder(lang, <<"heat pipes, controller regulating coolant flow...">>,
                                       <<"teplovye trubki, kontroller...">>),
     ph_effect |-> placeholder(lang,
                       <<"maintains cell temperature at 20-35 C during fast charging">>,
                       <<"podderzhivaet temperaturu yacheek 20-35 C...">>),
     ph_analyze_text |-> placeholder(lang, <<"Describe the invention for analysis...">>,
                                           <<"Opishite izobretenie dlya analiza...">>),
     ph_enhance_formula |-> placeholder(lang, <<"Enter the formula for enhancement...">>,
                                              <<"Vvedite formulu dlya uluchsheniya...">>),
     ph_openai_api_key |-> placeholder(lang, <<"sk-...">>, <<"sk-...">>),
     result_strong |-> resultHeadings(t, old.result_strong),
     analyze_strong |-> analyzeHeadings(t, old.analyze_strong),
     enhance_strong |-> enhanceHeadings(t, old.enhance_strong)]

----------------------------------------------------------------------------
(* Inputs of the model: what the user types and what the service answers *)

(* values of a text input or textarea when a handler reads it *)
TextInputs == {<<>>, <<" ">>, <<" ", "a", "\n">>, <<"b">>}

(* HTTP statuses of a response *)
Statuses == {200, 404, 500}

(* arrays of at most n elements of S *)
Arrays(S, n) == UNION {[1..k -> S] : k \in 0..n}

FormulaStrings == {<<"x">>, <<"y", "z">>}

(* bodies of a 2xx /formula response: {formula: string | string[]} *)
FormulaResponses ==
    {[formula |-> Str(f)] : f \in FormulaStrings}
        \cup {[formula |-> Arr(a)] : a \in Arrays(FormulaStrings, MaxItems)}

(* elements of the contradictions array: string | {description} *)
ContradictionItems == {Str(<<"c">>), Obj(Str(<<"d">>)), Obj(Str(<<>>))}

(* the contradictions field: absent, or an array of at most MaxItems elements *)
Contradictions ==
    {undefined} \cup {Arr(a) : a \in Arrays(ContradictionItems, MaxItems)}

(* bodies of a 2xx /analyze response: every contradictions field of the
   bounds, beside the same three lists *)
AnalyzeResponses ==
    {[keywords |-> Arr(<<<<"k">>, <<"w">>>>), ipc_codes |-> Arr(<<<<"G06F">>>>),
      triz_functions |-> Arr(<<<<"cool">>>>), contradictions |-> c] :
        c \in Contradictions}

(* bodies of a 2xx /enhance response, every field optional *)
EnhanceResponses ==
    [title : {undefined, Str(<<"T">>)},
     non_obvious_suggestions : {undefined, Str(<<>>), Str(<<"S">>)},
     non_obvious : {undefined, Str(<<"L">>)},
     justification : {undefined, Str(<<"J">>)}]

----------------------------------------------------------------------------
(* State *)

(* the page as loaded: result sections carry class "hidden", outputs are empty *)
InitResult == [hidden |-> TRUE, f_title |-> <<>>, formula |-> <<>>]

InitAnalyzeResult ==
    [hidden |-> TRUE, keywords |-> <<>>, ipc_codes |-> <<>>,
     triz_functions |-> <<>>, contradictions |-> <<>>]

InitEnhanceResult ==
    [hidden |-> TRUE, enhance_title |-> <<>>, non_obvious |-> <<>>,
     justification |-> <<>>]

(* one call of fetch(url, {method: "POST", ...}) *)
Request(url) == [url |-> url, method |-> "POST"]

(* an invocation of an async handler.  pc: "fetch" = suspended at await
   fetch, "json" = suspended at await resp.json(), "done" = returned or threw.
   alerts: the messages it passed to alert(); fetched: its calls of fetch;
   title: the const title of generate; status: resp.status once known *)
Task(op, pc, outcome, title, alerts, fetched) ==
    [op |-> op, pc |-> pc, outcome |-> outcome, title |-> title,
     status |-> 0, alerts |-> alerts, fetched |-> fetched]

(* no rendering run of a handler yet *)
NoRender == [done |-> FALSE]

Init ==
    /\ language = "ru"
    /\ ui = updateLanguageUI("ru", Html)
    /\ result = InitResult
    /\ analyze_result = InitAnalyzeResult
    /\ enhance_result = InitEnhanceResult
    /\ tasks = <<>>
    /\ rendered = [generate |-> NoRender, analyze |-> NoRender, enhance |-> NoRender]

----------------------------------------------------------------------------
(* change event of the language selector *)

(* LanguageChange translating a no-contradictions item on display too *)
LanguageChangeRetranslating(l) ==
    /\ l # language
    /\ language' = l
    /\ ui' = updateLanguageUI(l, ui)
    /\ analyze_result' =
          IF \E k \in Languages :
                 analyze_result.contradictions = <<Bundle(k).no_contradictions>>
          THEN [analyze_result EXCEPT !.contradictions = <<Bundle(l).no_contradictions>>]
          ELSE analyze_result
    /\ UNCHANGED <<result, enhance_result, tasks, rendered>>

LanguageChange(l) ==
    /\ l # language
    /\ language' = l
    /\ ui' = updateLanguageUI(l, ui)
    /\ UNCHANGED <<result, analyze_result, enhance_result, tasks, rendered>>

----------------------------------------------------------------------------
(* Synchronous part of the handlers, up to the first await *)

(* the check as it would be if only the title were required *)
generateValidTitleOnly(title, effect) == title # <<>>

(* !title || !effect is false *)
generateValid(title, effect) == title # <<>> /\ effect # <<>>

(* start, but a validation failure also resets the result sections *)
startClearing(op, valid, title, message, url) ==
    /\ Len(tasks) < MaxActions
    /\ tasks' = Append(tasks,
          IF valid
          THEN Task(op, "fetch", "pending", title, <<>>, <<Request(url)>>)
          ELSE Task(op, "done", "invalid", title, <<message>>, <<>>))
    /\ result' = IF valid THEN result ELSE InitResult
    /\ analyze_result' = IF valid THEN analyze_result ELSE InitAnalyzeResult
    /\ enhance_result' = IF valid THEN enhance_result ELSE InitEnhanceResult
    /\ UNCHANGED <<language, ui, rendered>>

(* a handler runs its synchronous part: it alerts and returns when its
   required input is missing, else it issues its one fetch and suspends *)
start(op, valid, title, message, url) ==
    /\ Len(tasks) < MaxActions
    /\ tasks' = Append(tasks,
          IF valid
          THEN Task(op, "fetch", "pending", title, <<>>, <<Request(url)>>)
          ELSE Task(op, "done", "invalid", title, <<message>>, <<>>))
    /\ UNCHANGED <<language, ui, result, analyze_result, enhance_result, rendered>>

generate(titleIn, effectIn) ==
    LET title == trim(titleIn)
        effect == trim(effectIn)
    IN start("generate", generateValid(title, effect), title,
             Bundle(language).error_fill_required, API_FORMULA)

(* analyze testing the text before trimming it *)
analyzeNoTrim(textIn) ==
    start("analyze", textIn # <<>>, <<>>,
          Bundle(language).error_enter_description, API_ANALYZE)

analyze(textIn) ==
    LET text == trim(textIn)
    IN start("analyze", text # <<>>, <<>>,
             Bundle(language).error_enter_description, API_ANALYZE)

enhance(formulaIn) ==
    LET formula == trim(formulaIn)
    IN start("enhance", formula # <<>>, <<>>,
             Bundle(language).error_enter_formula, API_ENHANCE)

----------------------------------------------------------------------------
(* The handlers with the whole form read and the request body built. Spec
   keeps of a request its URL and method; the actions below keep the payload
   object too, the argument of JSON.stringify *)

Digits == {"0", "1", "2", "3", "4", "5", "6", "7", "8", "9"}

Digit(c) ==
    CASE c = "0" -> 0 [] c = "1" -> 1 [] c = "2" -> 2 [] c = "3" -> 3
      [] c = "4" -> 4 [] c = "5" -> 5 [] c = "6" -> 6 [] c = "7" -> 7
      [] c = "8" -> 8 [] c = "9" -> 9

RECURSIVE Decimal(_)
Decimal(s) ==
    IF s = <<>> THEN 0
    ELSE Decimal(SubSeq(s, 1, Len(s) - 1)) * 10 + Digit(s[Len(s)])

(* a JS number: an integer or NaN (JSON.stringify writes NaN as null) *)
Num(n) == [kind |-> "number", nan |-> FALSE, value |-> n]
NaN == [kind |-> "number", nan |-> TRUE, value |-> 0]

(* Number(string) on strings of decimal digits and whitespace: surrounding
   whitespace is dropped, the empty string is 0, digits are read in base
   ten, and anything else is NaN *)
Number(s) ==
    LET t == trim(s)
    IN IF \A i \in 1..Len(t) : t[i] \in Digits THEN Num(Decimal(t)) ELSE NaN

(* truthiness of a JS number: neither 0 nor NaN *)
numberTruthy(n) == ~n.nan /\ n.value # 0

(* the options argument of fetch: method POST and the JSON of the payload *)
RequestWithBody(url, payload) == [url |-> url, method |-> "POST", body |-> payload]

(* the common shape of lines 153-163, 191-199 and 234-242 with the payload *)
post(op, valid, title, message, url, payload) ==
    /\ Len(tasks) < MaxPosts
    /\ tasks' = Append(tasks,
          IF valid
          THEN Task(op, "fetch", "pending", title, <<>>, <<RequestWithBody(url, payload)>>)
          ELSE Task(op, "done", "invalid", title, <<message>>, <<>>))
    /\ UNCHANGED <<language, ui, result, analyze_result, enhance_result, rendered>>

(* generateForm, but the payload has a variants field whatever the input *)
generateFormAlwaysVariants(f) ==
    LET title == trim(f.title)
        known == trim(f.known)
        distinct == trim(f.distinct)
        effect == trim(f.effect)
        payload == [title |-> title, known |-> known, distinct |-> distinct,
                    effect |-> effect, style |-> f.style, language |-> language]
    IN post("generate", generateValid(title, effect), title,
            Bundle(language).error_fill_required, API_FORMULA,
            payload @@ ("variants" :> Number(f.variants)))

(* generate, lines 145-167: f holds the values of the inputs title, known,
   distinct, effect, style and variants at the click *)
generateForm(f) ==
    LET title == trim(f.title)
        known == trim(f.known)
        distinct == trim(f.distinct)
        effect == trim(f.effect)
        style == f.style
        variants == f.variants
        payload == [title |-> title, known |-> known, distinct |-> distinct,
                    effect |-> effect, style |-> style, language |-> language]
    IN post("generate", generateValid(title, effect), title,
            Bundle(language).error_fill_required, API_FORMULA,
            IF variants # <<>>
            THEN payload @@ ("variants" :> Number(variants))
            ELSE payload)

(* analyzeForm, but max_keywords is sent whenever the input is not empty *)
analyzeFormSendsZero(f) ==
    LET text == trim(f.analyze_text)
        payload == [text |-> text]
    IN post("analyze", text # <<>>, <<>>,
            Bundle(language).error_enter_description, API_ANALYZE,
            IF f.max_keywords # <<>>
            THEN payload @@ ("max_keywords" :> Number(f.max_keywords))
            ELSE payload)

(* analyze, lines 188-203: max_keywords is undefined for an empty input *)
analyzeForm(f) ==
    LET text == trim(f.analyze_text)
        maxKwInput == f.max_keywords
        supplied == maxKwInput # <<>>
        max_keywords == IF supplied THEN Number(maxKwInput) ELSE NaN
        payload == [text |-> text]
    IN post("analyze", text # <<>>, <<>>,
            Bundle(language).error_enter_description, API_ANALYZE,
            IF supplied /\ numberTruthy(max_keywords)
            THEN payload @@ ("max_keywords" :> max_keywords)
            ELSE payload)

(* enhanceForm, but the key is sent as typed *)
enhanceFormUntrimmedKey(f) ==
    LET formula == trim(f.enhance_formula)
        payload == [formula |-> formula, provider |-> f.provider]
    IN post("enhance", formula # <<>>, <<>>,
            Bundle(language).error_enter_formula, API_ENHANCE,
            IF f.openai_api_key # <<>>
            THEN payload @@ ("openai_api_key" :> f.openai_api_key)
            ELSE payload)

(* enhance, lines 231-246 *)
enhanceForm(f) ==
    LET formula == trim(f.enhance_formula)
        openai_api_key == trim(f.openai_api_key)
        provider == f.provider
        payload == [formula |-> formula, provider |-> provider]
    IN post("enhance", formula # <<>>, <<>>,
            Bundle(language).error_enter_formula, API_ENHANCE,
            IF openai_api_key # <<>>
            THEN payload @@ ("openai_api_key" :> openai_api_key)
            ELSE payload)

----------------------------------------------------------------------------
(* Resumption after await fetch *)

(* the template literal `${prefix}${resp.status}` *)
errorMessage(prefix, status) == <<prefix, ToString(status)>>

Suspended(id, op, pc) ==
    /\ id \in 1..Len(tasks)
    /\ tasks[id].op = op
    /\ tasks[id].pc = pc

(* resume, but a failed request is sent again *)
resumeRetry(id, op, prefix, status) ==
    /\ Suspended(id, op, "fetch")
    /\ tasks' = [tasks EXCEPT ![id] =
          IF ok(status)
          THEN [@ EXCEPT !.pc = "json", !.status = status]
          ELSE [@ EXCEPT !.status = status,
                         !.fetched = Append(@, Request(tasks[id].fetched[1].url))]]
    /\ UNCHANGED <<language, ui, result, analyze_result, enhance_result, rendered>>

(* fetch resolved with a response of this status: if (!resp.ok) alert and
   return, else go on to await resp.json() *)
resume(id, op, prefix, status) ==
    /\ Suspended(id, op, "fetch")
    /\ tasks' = [tasks EXCEPT ![id] =
          IF ok(status)
          THEN [@ EXCEPT !.pc = "json", !.status = status]
          ELSE [@ EXCEPT !.pc = "done", !.outcome = "error", !.status = status,
                         !.alerts = Append(@, errorMessage(prefix, status))]]
    /\ UNCHANGED <<language, ui, result, analyze_result, enhance_result, rendered>>

(* generateResume, but a failed request hides the result section *)
generateResumeHiding(id, status) ==
    /\ Suspended(id, "generate", "fetch")
    /\ tasks' = [tasks EXCEPT ![id] =
          IF ok(status)
          THEN [@ EXCEPT !.pc = "json", !.status = status]
          ELSE [@ EXCEPT !.pc = "done", !.outcome = "error", !.status = status,
                         !.alerts = Append(@, errorMessage("Oshibka API: ", status))]]
    /\ result' = IF ok(status) THEN result ELSE [result EXCEPT !.hidden = TRUE]
    /\ UNCHANGED <<language, ui, analyze_result, enhance_result, rendered>>

generateResume(id, status) == resume(id, "generate", "Oshibka API: ", status)

(* analyzeResume, but a failed request reveals the analysis section *)
analyzeResumeRevealing(id, status) ==
    /\ Suspended(id, "analyze", "fetch")
    /\ tasks' = [tasks EXCEPT ![id] =
          IF ok(status)
          THEN [@ EXCEPT !.pc = "json", !.status = status]
          ELSE [@ EXCEPT !.pc = "done", !.outcome = "error", !.status = status,
                         !.alerts = Append(@, errorMessage("Oshibka API analiza: ", status))]]
    /\ analyze_result' =
          IF ok(status) THEN analyze_result ELSE [analyze_result EXCEPT !.hidden = FALSE]
    /\ UNCHANGED <<language, ui, result, enhance_result, rendered>>

analyzeResume(id, status) == resume(id, "analyze", "Oshibka API analiza: ", status)

enhanceResume(id, status) == resume(id, "enhance", "Oshibka API uluchsheniya: ", status)

(* fetchRejected, but the section of the operation is hidden again *)
fetchRejectedHiding(id) ==
    /\ id \in 1..Len(tasks)
    /\ tasks[id].pc = "fetch"
    /\ tasks' = [tasks EXCEPT ![id] = [@ EXCEPT !.pc = "done", !.outcome = "netfail"]]
    /\ result' = IF tasks[id].op = "generate"
                 THEN [result EXCEPT !.hidden = TRUE] ELSE result
    /\ analyze_result' = IF tasks[id].op = "analyze"
                         THEN [analyze_result EXCEPT !.hidden = TRUE] ELSE analyze_result
    /\ enhance_result' = IF tasks[id].op = "enhance"
                         THEN [enhance_result EXCEPT !.hidden = TRUE] ELSE enhance_result
    /\ UNCHANGED <<language, ui, rendered>>

(* fetch rejected (network failure): the await throws, no handler catches
   it, the invocation ends there *)
fetchRejected(id) ==
    /\ id \in 1..Len(tasks)
    /\ tasks[id].pc = "fetch"
    /\ tasks' = [tasks EXCEPT ![id] = [@ EXCEPT !.pc = "done", !.outcome = "netfail"]]
    /\ UNCHANGED <<language, ui, result, analyze_result, enhance_result, rendered>>

(* resp.json() rejected (the body is no JSON): likewise *)
jsonRejected(id) ==
    /\ id \in 1..Len(tasks)
    /\ tasks[id].pc = "json"
    /\ tasks' = [tasks EXCEPT ![id] = [@ EXCEPT !.pc = "done", !.outcome = "parsefail"]]
    /\ UNCHANGED <<language, ui, result, analyze_result, enhance_result, rendered>>

(* the invocation runs to its end; rendered keeps the body resp.json()
   resolved to and what the run read from the page: the selector value in
   analyze, nothing in generate and enhance *)
finish(id, data, read) ==
    /\ tasks' = [tasks EXCEPT ![id] = [@ EXCEPT !.pc = "done", !.outcome = "rendered"]]
    /\ rendered' = [rendered EXCEPT ![tasks[id].op] =
                       [done |-> TRUE, data |-> data, language |-> read]]

----------------------------------------------------------------------------
(* Resumption after await resp.json(): the rendering, one synchronous run *)

(* formulaText joining the variants with a single line break *)
formulaTextSingleNewline(formula) ==
    IF formula.kind = "array"
    THEN join(formula.value, <<"\n">>)
    ELSE textContent(formula)

(* lines 175-182 *)
formulaText(formula) ==
    IF formula.kind = "array"
    THEN join(formula.value, <<"\n", "\n">>)
    ELSE textContent(formula)

(* generateRender leaving the page alone when an invocation clicked later has
   rendered already *)
generateRenderDropStale(id, data) ==
    /\ Suspended(id, "generate", "json")
    /\ result' =
          IF \E j \in (id + 1)..Len(tasks) :
                 tasks[j].op = "generate" /\ tasks[j].outcome = "rendered"
          THEN result
          ELSE [hidden |-> FALSE,
                formula |-> formulaText(data.formula),
                f_title |-> tasks[id].title]
    /\ finish(id, data, "")
    /\ UNCHANGED <<language, ui, analyze_result, enhance_result>>

(* generateRender showing the title of the invocation triggered last *)
generateRenderLatestTitle(id, data) ==
    /\ Suspended(id, "generate", "json")
    /\ result' = [hidden |-> FALSE,
                  formula |-> formulaText(data.formula),
                  f_title |-> tasks[Len(tasks)].title]
    /\ finish(id, data, "")
    /\ UNCHANGED <<language, ui, analyze_result, enhance_result>>

generateRender(id, data) ==
    /\ Suspended(id, "generate", "json")
    /\ result' = [hidden |-> FALSE,
                  formula |-> formulaText(data.formula),
                  f_title |-> tasks[id].title]
    /\ finish(id, data, "")
    /\ UNCHANGED <<language, ui, analyze_result, enhance_result>>

(* (list || []).join(", ") *)
listText(list) == join(Or(list, Arr(<<>>)).value, <<",", " ">>)

(* li.textContent = c.description || c *)
itemText(c) == textContent(Or(description(c), c))

(* contradictionItems reading translations[lang] without the ru fallback:
   for an unknown language the lookup throws and no item is appended *)
contradictionItemsNoFallback(contradictions, lang) ==
    IF truthy(contradictions) /\ Len(contradictions.value) # 0
    THEN [i \in 1..Len(contradictions.value) |-> itemText(contradictions.value[i])]
    ELSE IF lang \in DOMAIN translations
         THEN <<translations[lang].no_contradictions>>
         ELSE <<>>

(* lines 212-226: the items of #contradictions after innerHTML = "" *)
contradictionItems(contradictions, lang) ==
    IF truthy(contradictions) /\ Len(contradictions.value) # 0
    THEN [i \in 1..Len(contradictions.value) |-> itemText(contradictions.value[i])]
    ELSE <<Bundle(lang).no_contradictions>>

analyzeRender(id, data) ==
    /\ Suspended(id, "analyze", "json")
    /\ analyze_result' =
          [hidden |-> FALSE,
           keywords |-> listText(data.keywords),
           ipc_codes |-> listText(data.ipc_codes),
           triz_functions |-> listText(data.triz_functions),
           contradictions |-> contradictionItems(data.contradictions, language)]
    /\ finish(id, data, language)
    /\ UNCHANGED <<language, ui, result, enhance_result>>

(* enhanceRender writing the proposed title into #f_title of the generate
   section *)
enhanceRenderShared(id, data) ==
    /\ Suspended(id, "enhance", "json")
    /\ enhance_result' =
          [hidden |-> FALSE,
           enhance_title |-> enhance_result.enhance_title,
           non_obvious |-> textContent(Or(data.non_obvious_suggestions,
                                          Or(data.non_obvious, Str(<<>>)))),
           justification |-> textContent(Or(data.justification, Str(<<>>)))]
    /\ result' = [result EXCEPT !.f_title = textContent(Or(data.title, Str(<<>>)))]
    /\ finish(id, data, "")
    /\ UNCHANGED <<language, ui, analyze_result>>

enhanceRender(id, data) ==
    /\ Suspended(id, "enhance", "json")
    /\ enhance_result' =
          [hidden |-> FALSE,
           enhance_title |-> textContent(Or(data.title, Str(<<>>))),
           non_obvious |-> textContent(Or(data.non_obvious_suggestions,
                                          Or(data.non_obvious, Str(<<>>)))),
           justification |-> textContent(Or(data.justification, Str(<<>>)))]
    /\ finish(id, data, "")
    /\ UNCHANGED <<language, ui, result, analyze_result>>

----------------------------------------------------------------------------

(* Next draws the response bodies from a few samples of each endpoint, so
   that every interleaving of MaxActions invocations is explored *)
FormulaSamples ==
    {[formula |-> Str(<<"x">>)], [formula |-> Arr(<<<<"x">>, <<"y", "z">>>>)]}

AnalyzeSamples ==
    {[keywords |-> undefined, ipc_codes |-> undefined,
      triz_functions |-> undefined, contradictions |-> undefined],
     [keywords |-> Arr(<<<<"k">>, <<"w">>>>), ipc_codes |-> Arr(<<<<"G06F">>>>),
      triz_functions |-> Arr(<<<<"cool">>>>),
      contradictions |-> Arr(<<Str(<<"c">>), Obj(Str(<<"d">>))>>)]}

EnhanceSamples ==
    {[title |-> undefined, non_obvious_suggestions |-> undefined,
      non_obvious |-> undefined, justification |-> undefined],
     [title |-> Str(<<"T">>), non_obvious_suggestions |-> Str(<<"S">>),
      non_obvious |-> Str(<<"L">>), justification |-> Str(<<"J">>)]}

Next ==
    \/ \E l \in Languages : LanguageChange(l)
    \/ \E t, e \in TextInputs : generate(t, e)
    \/ \E t \in TextInputs : analyze(t)
    \/ \E f \in TextInputs : enhance(f)
    \/ \E id \in 1..MaxActions, status \in Statuses : generateResume(id, status)
    \/ \E id \in 1..MaxActions, status \in Statuses : analyzeResume(id, status)
    \/ \E id \in 1..MaxActions, status \in Statuses : enhanceResume(id, status)
    \/ \E id \in 1..MaxActions : fetchRejected(id)
    \/ \E id \in 1..MaxActions : jsonRejected(id)
    \/ \E id \in 1..MaxActions, data \in FormulaSamples : generateRender(id, data)
    \/ \E id \in 1..MaxActions, data \in AnalyzeSamples : analyzeRender(id, data)
    \/ \E id \in 1..MaxActions, data \in EnhanceSamples : enhanceRender(id, data)

Spec == Init /\ [][Next]_vars

(* The generate handler alone, with every /formula body of the bounds *)
NextGenerate ==
    \/ \E l \in Languages : LanguageChange(l)
    \/ \E t, e \in TextInputs : generate(t, e)
    \/ \E id \in 1..MaxActions, status \in Statuses : generateResume(id, status)
    \/ \E id \in 1..MaxActions : fetchRejected(id)
    \/ \E id \in 1..MaxActions : jsonRejected(id)
    \/ \E id \in 1..MaxActions, data \in FormulaResponses : generateRender(id, data)

SpecGenerate == Init /\ [][NextGenerate]_vars

(* The analyze handler alone, with every /analyze body of the bounds *)
NextAnalyze ==
    \/ \E l \in Languages : LanguageChange(l)
    \/ \E t \in TextInputs : analyze(t)
    \/ \E id \in 1..MaxActions, status \in Statuses : analyzeResume(id, status)
    \/ \E id \in 1..MaxActions : fetchRejected(id)
    \/ \E id \in 1..MaxActions : jsonRejected(id)
    \/ \E id \in 1..MaxActions, data \in AnalyzeResponses : analyzeRender(id, data)

SpecAnalyze == Init /\ [][NextAnalyze]_vars

(* The values of the form at a click. The numeric inputs hold the empty
   string or a string of decimal digits *)
NumberInputs == {<<>>, <<"0">>, <<"1", "2">>}

GenerateForms ==
    [title : {<<" ">>, <<" ", "a", "\n">>},
     known : {<<>>, <<" ", "k">>},
     distinct : {<<"d", " ">>},
     effect : {<<"e", "\n">>},
     style : {<<"s">>},
     variants : NumberInputs]

AnalyzeForms ==
    [analyze_text : {<<" ">>, <<" ", "t">>},
     max_keywords : NumberInputs]

EnhanceForms ==
    [enhance_formula : {<<>>, <<"f", " ">>},
     openai_api_key : {<<>>, <<" ">>, <<" ", "s", "k">>},
     provider : {<<"p">>}]

(* The three handlers with their request bodies, MaxPosts invocations and
   one sample of each response *)
NextPayload ==
    \/ \E l \in Languages : LanguageChange(l)
    \/ \E f \in GenerateForms : generateForm(f)
    \/ \E f \in AnalyzeForms : analyzeForm(f)
    \/ \E f \in EnhanceForms : enhanceForm(f)
    \/ \E id \in 1..MaxActions, status \in {200, 500} : generateResume(id, status)
    \/ \E id \in 1..MaxActions, status \in {200, 500} : analyzeResume(id, status)
    \/ \E id \in 1..MaxActions, status \in {200, 500} : enhanceResume(id, status)
    \/ \E id \in 1..MaxActions : fetchRejected(id)
    \/ \E id \in 1..MaxActions : jsonRejected(id)
    \/ \E id \in 1..MaxActions : generateRender(id, [formula |-> Str(<<"x">>)])
    \/ \E id \in 1..MaxActions, data \in AnalyzeSamples :
          data.keywords = undefined /\ analyzeRender(id, data)
    \/ \E id \in 1..MaxActions, data \in EnhanceSamples :
          data.title = undefined /\ enhanceRender(id, data)

SpecPayload == Init /\ [][NextPayload]_vars

(* The enhance handler alone, with every /enhance body of the bounds *)
NextEnhance ==
    \/ \E l \in Languages : LanguageChange(l)
    \/ \E f \in TextInputs : enhance(f)
    \/ \E id \in 1..MaxActions, status \in Statuses : enhanceResume(id, status)
    \/ \E id \in 1..MaxActions : fetchRejected(id)
    \/ \E id \in 1..MaxActions : jsonRejected(id)
    \/ \E id \in 1..MaxActions, data \in EnhanceResponses : enhanceRender(id, data)

SpecEnhance == Init /\ [][NextEnhance]_vars

----------------------------------------------------------------------------
(* Properties *)

Ids == 1..Len(tasks)

(* the task appended by the step, when the step is a handler invocation *)
Started == tasks'[Len(tasks')]

Triggered == Len(tasks') = Len(tasks) + 1

(* C1: whenever generate is triggered with a title or an effect that is empty
   after trimming, it calls fetch not at all, shows the fill-required message
   of the selected language (ru for an unknown one) and returns *)
C1_GenerateValidates ==
    [][\A t, e \in TextInputs :
          (generate(t, e) /\ (trim(t) = <<>> \/ trim(e) = <<>>))
             => /\ Triggered
                /\ Started.fetched = <<>>
                /\ Started.pc = "done"
                /\ Started.alerts =
                      <<(IF language \in {"ru", "en"} THEN translations[language]
                         ELSE translations.ru).error_fill_required>>]_vars

(* a generate that was refused although its title was filled in: the effect
   was empty or blank *)
C1_Witness ==
    \E i \in Ids :
        /\ tasks[i].op = "generate"
        /\ tasks[i].outcome = "invalid"
        /\ tasks[i].title # <<>>
        /\ tasks[i].fetched = <<>>

(* C2: a non-2xx response to any of the three handlers leaves the three
   result sections, values and visibility, exactly as they were *)
C2_ErrorKeepsResults ==
    [][\A id \in Ids, status \in Statuses :
          (~ok(status) /\ (\/ generateResume(id, status)
                           \/ analyzeResume(id, status)
                           \/ enhanceResume(id, status)))
             => UNCHANGED <<result, analyze_result, enhance_result>>]_vars

(* a generate failed with a non-2xx status after an earlier generate had
   displayed its formula, which is still shown *)
C2_Witness ==
    \E i, j \in Ids :
        /\ i # j
        /\ tasks[i].op = "generate" /\ tasks[i].outcome = "rendered"
        /\ tasks[j].op = "generate" /\ tasks[j].outcome = "error"
        /\ ~result.hidden
        /\ result.formula # <<>>

(* C3 (as claimed): every request that failed, by a non-2xx status or by a
   network failure, has shown the user one error message, which names the
   status when there is one; it was sent once and rendered nothing *)
C3_FailureReported ==
    \A i \in Ids :
        tasks[i].outcome \in {"error", "netfail"}
           => /\ Len(tasks[i].alerts) = 1
              /\ (tasks[i].outcome = "error"
                    => tasks[i].alerts[1][2] = ToString(tasks[i].status))
              /\ Len(tasks[i].fetched) = 1

(* C4: a validation failure of any handler leaves the page and the other
   invocations as they were: it only adds an invocation that has ended with
   one alert and no request *)
C4_ValidationMutatesNothing ==
    [][(Triggered /\ Started.outcome = "invalid")
          => /\ UNCHANGED <<language, ui, result, analyze_result, enhance_result>>
             /\ SubSeq(tasks', 1, Len(tasks)) = tasks
             /\ Started.pc = "done"
             /\ Started.fetched = <<>>
             /\ Len(Started.alerts) = 1]_vars

(* an analyze or enhance was refused while an earlier result is on display *)
C4_Witness ==
    \E i, j \in Ids :
        /\ i < j
        /\ tasks[i].outcome = "rendered"
        /\ tasks[j].outcome = "invalid"
        /\ tasks[j].op \in {"analyze", "enhance"}
        /\ (~result.hidden \/ ~analyze_result.hidden \/ ~enhance_result.hidden)

(* the bundle the claims expect for a selector value *)
Expected(lang) == IF lang \in {"ru", "en"} THEN translations[lang] ELSE translations.ru

C5_LabelKeys ==
    {"label_title", "label_known", "label_distinct", "label_effect",
     "label_language", "label_style", "label_variants", "label_analyze_text",
     "label_max_keywords", "label_enhance_formula", "label_api_key",
     "label_provider"}

C5_Placeholders ==
    [en |-> [ph_title |-> <<"Cooling system for an electric car battery">>,
             ph_known |-> <<"radiator, electric fan">>,
             ph_distinct |-> <<"heat pipes, controller regulating coolant flow...">>,
             ph_effect |-> <<"maintains cell temperature at 20-35 C during fast charging">>,
             ph_analyze_text |-> <<"Describe the invention for analysis...">>,
             ph_enhance_formula |-> <<"Enter the formula for enhancement...">>,
             ph_openai_api_key |-> <<"sk-...">>],
     ru |-> [ph_title |-> <<"Sistema okhlazhdeniya akkumulyatora...">>,
             ph_known |-> <<"radiator, elektricheskiy ventilyator">>,
             ph_distinct |-> <<"teplovye trubki, kontroller...">>,
             ph_effect |-> <<"podderzhivaet temperaturu yacheek 20-35 C...">>,
             ph_analyze_text |-> <<"Opishite izobretenie dlya analiza...">>,
             ph_enhance_formula |-> <<"Vvedite formulu dlya uluchsheniya...">>,
             ph_openai_api_key |-> <<"sk-...">>]]

(* C5: in every state, so after every handled change event and with no
   reload, each label is the selected language's entry followed by a line
   break, each button and header is its entry, each placeholder is the
   language's placeholder, and the headings of the three result sections,
   rendered or not, are the language's field names followed by a colon *)
C5_TextsFollowLanguage ==
    LET t == Expected(language)
        p == C5_Placeholders[IF language = "en" THEN "en" ELSE "ru"]
    IN /\ \A k \in C5_LabelKeys : ui[k] = t[k] \o <<"\n">>
       /\ ui.h1 = t.h1
       /\ ui.btn = t.btn_generate
       /\ ui.h2_1 = t.header_analyze
       /\ ui.analyze_btn = t.btn_analyze
       /\ ui.h2_2 = t.header_enhance
       /\ ui.enhance_btn = t.btn_enhance
       /\ \A k \in DOMAIN p : ui[k] = p[k]
       /\ ui.result_strong = <<t.field_title \o <<":">>, t.field_formula \o <<":">>>>
       /\ ui.analyze_strong =
             <<t.field_keywords \o <<":">>, t.field_ipc \o <<":">>,
               t.field_triz \o <<":">>, t.field_contradictions \o <<":">>>>
       /\ ui.enhance_strong =
             <<t.field_proposed_title \o <<":">>, t.field_non_obvious \o <<":">>,
               t.field_justification \o <<":">>>>

(* the selector was switched to en while generate and analyze results are on
   display: their headings and the labels are the English ones *)
C5_Witness ==
    /\ language = "en"
    /\ ~result.hidden
    /\ ~analyze_result.hidden
    /\ ui.result_strong[1] = <<"Name", ":">>
    /\ ui.analyze_strong[4] = <<"Contradictions", ":">>
    /\ ui.label_title = <<"Name (object + function)", "\n">>

(* C6: when the 2xx /analyze body rendered last has no contradictions field
   or an empty array, the list holds exactly one item, the no-contradictions
   string of the language that was selected when it was rendered (ru for an
   unknown value), and nothing an earlier analyze had rendered *)
C6_NoContradictionsPlaceholder ==
    LET r == rendered.analyze
    IN (/\ r.done
        /\ (r.data.contradictions = undefined \/ r.data.contradictions = Arr(<<>>)))
       => analyze_result.contradictions = <<Expected(r.language).no_contradictions>>

(* two analyze invocations have rendered, the selector holds an unknown
   value, and the list is the single ru placeholder *)
C6_Witness ==
    \E i, j \in Ids :
        /\ i # j
        /\ tasks[i].op = "analyze" /\ tasks[i].outcome = "rendered"
        /\ tasks[j].op = "analyze" /\ tasks[j].outcome = "rendered"
        /\ rendered.analyze.done
        /\ rendered.analyze.language = "de"
        /\ rendered.analyze.data.contradictions = undefined
        /\ analyze_result.contradictions = <<translations.ru.no_contradictions>>

(* C7 (as claimed): when the 2xx /analyze body rendered last has a non-empty
   contradictions array, the list has one item per element, in order, the
   description of an object and the string itself otherwise *)
C7_ItemsAreDescriptions ==
    LET r == rendered.analyze
    IN (/\ r.done
        /\ r.data.contradictions # undefined
        /\ r.data.contradictions.value # <<>>)
       => LET cs == r.data.contradictions.value
              items == analyze_result.contradictions
          IN /\ Len(items) = Len(cs)
             /\ \A i \in 1..Len(cs) :
                   items[i] = IF cs[i].kind = "object"
                              THEN cs[i].description.value
                              ELSE cs[i].value

(* start of the i-th variant in the text joined with two-character separators *)
RECURSIVE C8_Offset(_, _)
C8_Offset(a, i) ==
    IF i = 1 THEN 0 ELSE C8_Offset(a, i - 1) + Len(a[i - 1]) + 2

(* out is the strings of a in order, two line breaks between neighbours,
   nothing before the first and nothing after the last *)
C8_JoinedByBlankLine(a, out) ==
    IF a = <<>> THEN out = <<>>
    ELSE /\ Len(out) = C8_Offset(a, Len(a)) + Len(a[Len(a)])
         /\ \A i \in 1..Len(a) :
               SubSeq(out, C8_Offset(a, i) + 1, C8_Offset(a, i) + Len(a[i])) = a[i]
         /\ \A i \in 1..(Len(a) - 1) :
               /\ out[C8_Offset(a, i) + Len(a[i]) + 1] = "\n"
               /\ out[C8_Offset(a, i) + Len(a[i]) + 2] = "\n"

(* C8: when the formula of the 2xx /formula body rendered last is an array
   of N strings, the formula displayed is the N strings in order with exactly
   two line breaks between neighbours and none at either end; a string
   formula is displayed as it is *)
C8_FormulaJoined ==
    LET r == rendered.generate
    IN r.done
       => IF r.data.formula.kind = "array"
          THEN C8_JoinedByBlankLine(r.data.formula.value, result.formula)
          ELSE result.formula = r.data.formula.value

(* a two-variant response is on display *)
C8_Witness ==
    /\ ~result.hidden
    /\ rendered.generate.done
    /\ rendered.generate.data.formula = Arr(<<<<"x">>, <<"y", "z">>>>)
    /\ result.formula = <<"x", "\n", "\n", "y", "z">>

C9_Endpoint(op) ==
    CASE op = "generate" -> <<API_BASE, "/formula">>
      [] op = "analyze" -> <<API_BASE, "/analyze">>
      [] op = "enhance" -> <<API_BASE, "/enhance">>

(* C9: at every moment of its life and after it, an invocation that passed
   validation has called fetch exactly once, a POST to its own endpoint,
   whatever its outcome; one that failed validation has called it not at all *)
C9_OneRequest ==
    \A i \in Ids :
        IF tasks[i].outcome = "invalid"
        THEN tasks[i].fetched = <<>>
        ELSE tasks[i].fetched = <<[url |-> C9_Endpoint(tasks[i].op), method |-> "POST"]>>

(* one invocation ended on a non-2xx status and another on a network failure,
   each with its single request *)
C9_Witness ==
    \E i, j \in Ids :
        /\ tasks[i].outcome = "error"
        /\ tasks[j].outcome = "netfail"
        /\ Len(tasks[i].fetched) = 1
        /\ Len(tasks[j].fetched) = 1

(* C10: a step changes the state of at most one invocation, and it changes a
   result section only when that invocation is of the section's own
   operation; the other two sections stay as they were *)
C10_DisjointAreas ==
    [][/\ \A i, j \in Ids :
             (tasks'[i] # tasks[i] /\ tasks'[j] # tasks[j]) => i = j
       /\ result' # result =>
             /\ \E i \in Ids : tasks[i].op = "generate" /\ tasks'[i] # tasks[i]
             /\ UNCHANGED <<analyze_result, enhance_result>>
       /\ analyze_result' # analyze_result =>
             /\ \E i \in Ids : tasks[i].op = "analyze" /\ tasks'[i] # tasks[i]
             /\ UNCHANGED <<result, enhance_result>>
       /\ enhance_result' # enhance_result =>
             /\ \E i \in Ids : tasks[i].op = "enhance" /\ tasks'[i] # tasks[i]
             /\ UNCHANGED <<result, analyze_result>>]_vars

(* an invocation rendered its result while an earlier invocation of another
   operation was still awaiting its response *)
C10_Witness ==
    \E i, j \in Ids :
        /\ i < j
        /\ tasks[i].op # tasks[j].op
        /\ tasks[i].pc # "done"
        /\ tasks[j].outcome = "rendered"

(* validation message of each handler in the ru bundle *)
C11_RuMessage(op) ==
    CASE op = "generate" -> translations.ru.error_fill_required
      [] op = "analyze" -> translations.ru.error_enter_description
      [] op = "enhance" -> translations.ru.error_enter_formula

(* C11: while the selector holds a value that is no key of the table, the
   texts set by updateLanguageUI are the ru entries, a handler refused by
   validation alerts the ru message, and an analyze rendering an empty
   contradictions field appends the ru placeholder; the ru bundle has every
   key of the table, so none of these is missing *)
C11_UnknownLanguageUsesRu ==
    [][language \notin {"ru", "en"} =>
          /\ DOMAIN translations.ru = DOMAIN translations.en
          /\ \A k \in C5_LabelKeys : ui[k] = translations.ru[k] \o <<"\n">>
          /\ ui.h1 = translations.ru.h1
          /\ ui.btn = translations.ru.btn_generate
          /\ ui.h2_1 = translations.ru.header_analyze
          /\ ui.analyze_btn = translations.ru.btn_analyze
          /\ ui.h2_2 = translations.ru.header_enhance
          /\ ui.enhance_btn = translations.ru.btn_enhance
          /\ ui.result_strong[1] = translations.ru.field_title \o <<":">>
          /\ ui.analyze_strong[4] = translations.ru.field_contradictions \o <<":">>
          /\ ui.enhance_strong[3] = translations.ru.field_justification \o <<":">>
          /\ (Triggered /\ Started.outcome = "invalid")
                => Started.alerts = <<C11_RuMessage(Started.op)>>
          /\ (/\ rendered'.analyze # rendered.analyze
              /\ ~truthy(rendered'.analyze.data.contradictions))
                => analyze_result'.contradictions =
                      <<translations.ru.no_contradictions>>]_vars

(* with the selector at an unknown value, an enhance was refused with the ru
   message and an analyze rendered the ru placeholder *)
C11_Witness ==
    /\ language = "de"
    /\ ui.btn = translations.ru.btn_generate
    /\ \E i \in Ids :
          /\ tasks[i].op = "enhance"
          /\ tasks[i].alerts = <<translations.ru.error_enter_formula>>
    /\ rendered.analyze.done
    /\ rendered.analyze.language = "de"
    /\ analyze_result.contradictions = <<translations.ru.no_contradictions>>

(* a text with nothing but whitespace in it, the empty text included *)
Blank(s) == \A i \in 1..Len(s) : s[i] \in Whitespace

(* C12: whenever analyze is triggered with a text, or enhance with a formula,
   that holds nothing but whitespace, the handler calls fetch not at all,
   alerts its own message in the selected language (ru for an unknown one)
   and returns *)
C12_AnalyzeEnhanceValidate ==
    [][\A t \in TextInputs :
          /\ (analyze(t) /\ Blank(t))
                => /\ Triggered
                   /\ Started.pc = "done"
                   /\ Started.fetched = <<>>
                   /\ Started.alerts = <<Expected(language).error_enter_description>>
          /\ (enhance(t) /\ Blank(t))
                => /\ Triggered
                   /\ Started.pc = "done"
                   /\ Started.fetched = <<>>
                   /\ Started.alerts = <<Expected(language).error_enter_formula>>]_vars

(* an analyze was refused with the English message and an enhance with the
   Russian one *)
C12_Witness ==
    \E i, j \in Ids :
        /\ tasks[i].op = "analyze" /\ tasks[i].outcome = "invalid"
        /\ tasks[i].alerts = <<translations.en.error_enter_description>>
        /\ tasks[j].op = "enhance" /\ tasks[j].outcome = "invalid"
        /\ tasks[j].alerts = <<translations.ru.error_enter_formula>>
        /\ tasks[i].fetched = <<>> /\ tasks[j].fetched = <<>>

(* C13: a response whose status is outside 200-299 ends the invocation at
   once: it alerts one message that carries the status in decimal, it never
   reaches resp.json(), and the three result sections stay as they were *)
C13_StatusReported ==
    [][\A i \in Ids :
          (/\ tasks[i].pc = "fetch"
           /\ tasks'[i] # tasks[i]
           /\ tasks'[i].outcome # "netfail"
           /\ (tasks'[i].status < 200 \/ tasks'[i].status > 299))
          => /\ tasks'[i].pc = "done"
             /\ tasks'[i].outcome = "error"
             /\ Len(tasks'[i].alerts) = 1
             /\ tasks'[i].alerts[1][2] = ToString(tasks'[i].status)
             /\ tasks'[i].status \in Statuses
             /\ UNCHANGED <<result, analyze_result, enhance_result, rendered>>]_vars

(* a generate ended on status 404 and an analyze on status 500, each with the
   status in its message *)
C13_Witness ==
    \E i, j \in Ids :
        /\ tasks[i].op = "generate" /\ tasks[i].outcome = "error"
        /\ tasks[i].alerts = <<<<"Oshibka API: ", "404">>>>
        /\ tasks[j].op = "analyze" /\ tasks[j].outcome = "error"
        /\ tasks[j].alerts = <<<<"Oshibka API analiza: ", "500">>>>

(* out is what is left of s once the whitespace at its two ends is dropped *)
Trimmed(s, out) ==
    \E i \in 0..Len(s), j \in 0..Len(s) :
        /\ i <= j
        /\ out = SubSeq(s, i + 1, j)
        /\ \A k \in 1..i : s[k] \in Whitespace
        /\ \A k \in (j + 1)..Len(s) : s[k] \in Whitespace
        /\ out # <<>> => out[1] \notin Whitespace /\ out[Len(out)] \notin Whitespace

(* the numbers the numeric inputs of the model stand for *)
Reading(s) == CASE s = <<"0">> -> 0 [] s = <<"1", "2">> -> 12

(* the step sent a request *)
Sent == Triggered /\ Started.outcome = "pending"

(* C14: the body of a generate request has the fields title, known, distinct
   and effect with the trimmed inputs, style with the input as it is and
   language with the selector value of the click; it has a variants field
   exactly when the variants input is not empty, holding the number the
   input reads as; and no later step changes the request *)
C14_GenerateBody ==
    [][/\ \A f \in GenerateForms :
            (generateForm(f) /\ Sent) =>
                LET body == Started.fetched[1].body
                IN /\ {"title", "known", "distinct", "effect", "style", "language"}
                         = DOMAIN body \ {"variants"}
                   /\ Trimmed(f.title, body.title)
                   /\ Trimmed(f.known, body.known)
                   /\ Trimmed(f.distinct, body.distinct)
                   /\ Trimmed(f.effect, body.effect)
                   /\ body.style = f.style
                   /\ body.language = language
                   /\ "variants" \in DOMAIN body <=> f.variants # <<>>
                   /\ f.variants # <<>> =>
                         /\ ~body.variants.nan
                         /\ body.variants.value = Reading(f.variants)
       /\ \A i \in Ids : tasks'[i].fetched = tasks[i].fetched]_vars

(* a request went out in English with variants 12 and the trimmed known
   part, and the selector has been moved since *)
C14_Witness ==
    \E i \in Ids :
        /\ tasks[i].op = "generate" /\ tasks[i].fetched # <<>>
        /\ LET body == tasks[i].fetched[1].body
           IN /\ "variants" \in DOMAIN body /\ body.variants.value = 12
              /\ body.language = "en" /\ body.known = <<"k">>
        /\ language = "ru"

(* C15: the body of an analyze request has the field text with the trimmed
   input; it has a max_keywords field exactly when the max_keywords input is
   not empty and reads as a number other than zero, and the field holds that
   number *)
C15_AnalyzeBody ==
    [][\A f \in AnalyzeForms :
          (analyzeForm(f) /\ Sent) =>
              LET body == Started.fetched[1].body
                  given == f.max_keywords # <<>> /\ Reading(f.max_keywords) # 0
              IN /\ DOMAIN body \ {"max_keywords"} = {"text"}
                 /\ Trimmed(f.analyze_text, body.text)
                 /\ "max_keywords" \in DOMAIN body <=> given
                 /\ given =>
                       /\ ~body.max_keywords.nan
                       /\ body.max_keywords.value = Reading(f.max_keywords)]_vars

(* an analyze request went out with max_keywords 12 *)
C15_Witness ==
    \E i \in Ids :
        /\ tasks[i].op = "analyze" /\ tasks[i].fetched # <<>>
        /\ LET body == tasks[i].fetched[1].body
           IN /\ body.text = <<"t">>
              /\ "max_keywords" \in DOMAIN body /\ body.max_keywords.value = 12

(* C16: the body of an enhance request has the fields formula, with the
   trimmed input, and provider; it has an openai_api_key field exactly when
   the key input holds something else than whitespace, and the field holds
   the trimmed key *)
C16_EnhanceBody ==
    [][\A f \in EnhanceForms :
          (enhanceForm(f) /\ Sent) =>
              LET body == Started.fetched[1].body
              IN /\ DOMAIN body \ {"openai_api_key"} = {"formula", "provider"}
                 /\ Trimmed(f.enhance_formula, body.formula)
                 /\ body.provider = f.provider
                 /\ "openai_api_key" \in DOMAIN body <=> ~Blank(f.openai_api_key)
                 /\ ~Blank(f.openai_api_key) =>
                       Trimmed(f.openai_api_key, body.openai_api_key)]_vars

(* an enhance request went out with the trimmed key *)
C16_Witness ==
    \E i \in Ids :
        /\ tasks[i].op = "enhance" /\ tasks[i].fetched # <<>>
        /\ LET body == tasks[i].fetched[1].body
           IN /\ body.formula = <<"f">>
              /\ "openai_api_key" \in DOMAIN body
              /\ body.openai_api_key = <<"s", "k">>

(* the text of a field of the body: the string, nothing for an absent field *)
Returned(v) == IF v.kind = "string" THEN v.value ELSE <<>>

(* C17, as stated: after a successful /enhance response the suggestions shown
   are non_obvious_suggestions when the body has that field, else
   non_obvious when it has that one, else the empty string; the title and the
   justification are shown as returned, empty when absent; the section is
   revealed *)
C17_SuggestionsByPresence ==
    rendered.enhance.done =>
        LET data == rendered.enhance.data
        IN /\ enhance_result.non_obvious =
                 IF data.non_obvious_suggestions # undefined
                 THEN Returned(data.non_obvious_suggestions)
                 ELSE Returned(data.non_obvious)
           /\ enhance_result.enhance_title = Returned(data.title)
           /\ enhance_result.justification = Returned(data.justification)
           /\ ~enhance_result.hidden

(* C17, amended: the suggestions shown are non_obvious_suggestions when the
   body has that field and it is not the empty string, else non_obvious, else
   the empty string; the rest as stated *)
C17_SuggestionsByContent ==
    rendered.enhance.done =>
        LET data == rendered.enhance.data
        IN /\ enhance_result.non_obvious =
                 IF Returned(data.non_obvious_suggestions) # <<>>
                 THEN Returned(data.non_obvious_suggestions)
                 ELSE Returned(data.non_obvious)
           /\ enhance_result.enhance_title = Returned(data.title)
           /\ enhance_result.justification = Returned(data.justification)
           /\ ~enhance_result.hidden

(* a body with an empty non_obvious_suggestions and a legacy text was
   rendered: the legacy text is shown *)
C17_Witness ==
    /\ rendered.enhance.done
    /\ rendered.enhance.data.non_obvious_suggestions = Str(<<>>)
    /\ rendered.enhance.data.non_obvious = Str(<<"L">>)
    /\ rendered.enhance.data.title = undefined
    /\ enhance_result.non_obvious = <<"L">>
    /\ enhance_result.enhance_title = <<>>
    /\ ~enhance_result.hidden

(* the three ways an invocation is said to end *)
ValidationMessage(t) == t.fetched = <<>> /\ Len(t.alerts) = 1

ErrorReport(t) == Len(t.fetched) = 1 /\ Len(t.alerts) = 1 /\ t.outcome # "rendered"

DisplayUpdate(t) == Len(t.fetched) = 1 /\ t.alerts = <<>> /\ t.outcome = "rendered"

(* C18: an invocation that has come to its end has ended in one of three
   ways: with a validation message and no request, with an error report and
   no update of the page, or with an update of the page that reveals its
   section *)
C18_ExactlyOneOutcome ==
    \A i \in Ids :
        tasks[i].pc = "done" =>
            \/ ValidationMessage(tasks[i])
            \/ ErrorReport(tasks[i])
            \/ DisplayUpdate(tasks[i])

(* out is the text shown for the formula field of a /formula body *)
FormulaShown(formula, out) ==
    IF formula.kind = "array"
    THEN C8_JoinedByBlankLine(formula.value, out)
    ELSE out = formula.value

(* the step is the one in which invocation i renders its response *)
Renders(i) == tasks[i].pc = "json" /\ tasks'[i].outcome = "rendered"

(* C19: the title an invocation read at its click stays with it, and a step
   that changes the title or the formula on display is the rendering step of
   one generate invocation, which leaves that invocation's title and the
   formula of the body it has just parsed, both visible: no state has the
   formula of one invocation next to the title of another *)
C19_TitleWithFormula ==
    [][/\ \A i \in Ids : tasks'[i].title = tasks[i].title
       /\ result' # result =>
             \E i \in Ids :
                 /\ tasks[i].op = "generate"
                 /\ Renders(i)
                 /\ rendered'.generate.done
                 /\ result'.f_title = tasks[i].title
                 /\ FormulaShown(rendered'.generate.data.formula, result'.formula)
                 /\ ~result'.hidden]_vars

(* the first of two generate invocations has rendered a two-variant response
   under its own title while the second, clicked later with another title,
   is still waiting *)
C19_Witness ==
    /\ Len(tasks) >= 2
    /\ tasks[1].op = "generate" /\ tasks[1].outcome = "rendered"
    /\ tasks[2].op = "generate" /\ tasks[2].pc = "fetch"
    /\ tasks[1].title = <<"a">> /\ tasks[2].title = <<"b">>
    /\ result.f_title = <<"a">>
    /\ result.formula = <<"x", "\n", "\n", "y", "z">>

(* the body has no item for a list of the analysis section *)
NoItems(list) == list = undefined \/ list = Arr(<<>>)

(* C20: every invocation that gets a 2xx JSON response renders it in the step
   in which the response is parsed, whatever was on display and whether or
   not an invocation of the same operation clicked later has rendered
   before it; a section changes in no other step. So the section shows the
   response that came last, not the one of the latest click *)
C20_ArrivalOrder ==
    [][/\ \A i \in Ids :
             Renders(i) =>
                 CASE tasks[i].op = "generate" ->
                          /\ result'.f_title = tasks[i].title
                          /\ FormulaShown(rendered'.generate.data.formula,
                                          result'.formula)
                          /\ ~result'.hidden
                   [] tasks[i].op = "analyze" ->
                          LET data == rendered'.analyze.data
                          IN /\ analyze_result'.keywords = <<>> <=> NoItems(data.keywords)
                             /\ Len(analyze_result'.contradictions) =
                                   IF NoItems(data.contradictions) THEN 1
                                   ELSE Len(data.contradictions.value)
                             /\ ~analyze_result'.hidden
                   [] tasks[i].op = "enhance" ->
                          LET data == rendered'.enhance.data
                          IN /\ enhance_result'.enhance_title = Returned(data.title)
                             /\ enhance_result'.justification = Returned(data.justification)
                             /\ ~enhance_result'.hidden
       /\ result' # result => \E i \in Ids : tasks[i].op = "generate" /\ Renders(i)
       /\ analyze_result' # analyze_result =>
             \E i \in Ids : tasks[i].op = "analyze" /\ Renders(i)
       /\ enhance_result' # enhance_result =>
             \E i \in Ids : tasks[i].op = "enhance" /\ Renders(i)]_vars

(* two generate invocations with different titles have both rendered, and
   the page shows the one clicked first: its response came last *)
C20_Witness ==
    /\ Len(tasks) >= 2
    /\ tasks[1].op = "generate" /\ tasks[1].outcome = "rendered"
    /\ tasks[2].op = "generate" /\ tasks[2].outcome = "rendered"
    /\ tasks[1].title = <<"a">> /\ tasks[2].title = <<"b">>
    /\ result.f_title = <<"a">>
    /\ rendered.generate.data.formula = Str(<<"x">>)
    /\ result.formula = <<"x">>

(* C21: a step that changes the selected language changes the headings and
   leaves the three result sections as they were, values, list items and
   visibility, and every invocation too; a no-contradictions item on display
   is the one of the language selected when it was rendered, whatever the
   selector holds now *)
C21_SwitchKeepsResults ==
    [][/\ language' # language =>
             /\ UNCHANGED <<result, analyze_result, enhance_result, tasks, rendered>>
             /\ ui'.result_strong[1] = Expected(language').field_title \o <<":">>
       /\ (/\ rendered'.analyze.done
           /\ NoItems(rendered'.analyze.data.contradictions))
             => analyze_result'.contradictions =
                   <<Expected(rendered'.analyze.language).no_contradictions>>]_vars

(* the placeholder rendered in Russian is still on display, under the English
   headings, after a switch to English *)
C21_Witness ==
    /\ language = "en"
    /\ rendered.analyze.done
    /\ rendered.analyze.language = "ru"
    /\ ~analyze_result.hidden
    /\ analyze_result.contradictions = <<translations.ru.no_contradictions>>
    /\ ui.analyze_strong[4] = translations.en.field_contradictions \o <<":">>

(* an invocation of the operation got a 2xx response and rendered it *)
Succeeded(op) ==
    /\ rendered[op].done
    /\ \E i \in Ids :
          /\ tasks[i].op = op
          /\ tasks[i].outcome = "rendered"
          /\ tasks[i].status >= 200 /\ tasks[i].status <= 299

(* C22: a result section that is visible belongs to an operation of which
   some invocation got a 2xx response and rendered it; until then the
   section is hidden, whatever else has happened on the page *)
C22_VisibleOnlyAfterSuccess ==
    /\ ~result.hidden => Succeeded("generate")
    /\ ~analyze_result.hidden => Succeeded("analyze")
    /\ ~enhance_result.hidden => Succeeded("enhance")

(* generate has rendered and analyze has ended on a non-2xx status, in
   English: the generate section alone is visible *)
C22_Witness ==
    /\ language = "en"
    /\ ~result.hidden
    /\ analyze_result.hidden
    /\ enhance_result.hidden
    /\ \E i \in Ids : tasks[i].op = "analyze" /\ tasks[i].outcome = "error"

(* the invocation ends in the step without rendering *)
Fails(i) == tasks[i].pc # "done" /\ tasks'[i].pc = "done" /\ tasks'[i].outcome # "rendered"

(* C23: no step hides a result section that is visible, and a step in which
   an invocation ends without rendering, or is refused by validation, leaves
   the three sections with what they showed *)
C23_VisibilityMonotonic ==
    [][/\ ~result.hidden => ~result'.hidden
       /\ ~analyze_result.hidden => ~analyze_result'.hidden
       /\ ~enhance_result.hidden => ~enhance_result'.hidden
       /\ ((\E i \in Ids : Fails(i)) \/ (Triggered /\ Started.outcome = "invalid"))
             => UNCHANGED <<result, analyze_result, enhance_result>>]_vars

(* a generate rendered its response, a later generate lost its request to a
   network failure, and the section still shows the first one's result *)
C23_Witness ==
    /\ Len(tasks) >= 2
    /\ tasks[1].op = "generate" /\ tasks[1].outcome = "rendered"
    /\ tasks[2].op = "generate" /\ tasks[2].outcome = "netfail"
    /\ tasks[2].title # tasks[1].title
    /\ ~result.hidden
    /\ result.f_title = tasks[1].title
    /\ result.formula = <<"x">>

====
